---- MODULE Spec2Model ----
(***************************************************************************)
(* Model of the voice-assistant backend (src/backend/main.py and           *)
(* src/backend/tools.py): the turn loop handle_interaction, the streaming  *)
(* response processor handle_request, the speech queue and its consumer    *)
(* speaker_task, the tool-block runner _run_tool_block and the sandboxed   *)
(* path resolution _resolve_target / _join_safe.                           *)
(*                                                                         *)
(* Text is a sequence of one-character strings.  The nine characters of    *)
(* the literal word tool_code are written as the single character "T", a   *)
(* backtick as "^".                                                        *)
(***************************************************************************)
EXTENDS Integers, Sequences, FiniteSets, TLC

\* ------------------------------------------------------------------ text

Whitespace == {" ", "\n"}
Terminal == {".", "!", "?"}
BT == "^"
Fence == <<BT, BT, BT>>
QuoteFence == <<"'", "'", "'">>
ToolFenceOpen == <<BT, BT, BT, "T">>

MinOf(S) == CHOOSE x \in S : \A y \in S : x <= y

StartsAt(s, pat, i) ==
    /\ i >= 1
    /\ i + Len(pat) - 1 <= Len(s)
    /\ \A k \in 1..Len(pat) : s[i + k - 1] = pat[k]

\* str.find(pat, from): the least index >= from where pat occurs, 0 when none
Find(s, pat, from) ==
    LET H == {i \in from..(Len(s) - Len(pat) + 1) : StartsAt(s, pat, i)}
    IN  IF H = {} THEN 0 ELSE MinOf(H)

\* the first index >= i that holds no whitespace (Len(s)+1 when none)
SkipWs(s, i) ==
    MinOf({j \in i..(Len(s) + 1) : j > Len(s) \/ s[j] \notin Whitespace})

\* the first index >= i that holds a backtick (Len(s)+1 when none)
SkipNonBT(s, i) ==
    MinOf({j \in i..(Len(s) + 1) : j > Len(s) \/ s[j] = BT})

Drop(s, n) == SubSeq(s, n + 1, Len(s))

RECURSIVE Flatten(_)
Flatten(ss) == IF ss = <<>> THEN <<>> ELSE Head(ss) \o Flatten(Tail(ss))

RECURSIVE JoinWith(_, _)
JoinWith(ss, sep) ==
    IF ss = <<>> THEN <<>>
    ELSE IF Len(ss) = 1 THEN ss[1]
    ELSE ss[1] \o sep \o JoinWith(Tail(ss), sep)

\* str.strip()
RECURSIVE LStrip(_)
LStrip(s) == IF s # <<>> /\ Head(s) \in Whitespace THEN LStrip(Tail(s)) ELSE s
RECURSIVE RStrip(_)
RStrip(s) ==
    IF s # <<>> /\ s[Len(s)] \in Whitespace
    THEN RStrip(SubSeq(s, 1, Len(s) - 1)) ELSE s
Strip(s) == RStrip(LStrip(s))

\* TOOL_BLOCK_RE.search: ^^^tool_code \s* (.*?) ^^^ with re.S; the leftmost
\* opening fence, the whitespace after it, then lazily up to the next ^^^
NoMatch == [start |-> 0, end |-> 0, block |-> <<>>]
ToolBlockSearch(s) ==
    LET i == Find(s, ToolFenceOpen, 1)
    IN  IF i = 0 THEN NoMatch
        ELSE LET q == SkipWs(s, i + 4)
                 j == Find(s, Fence, q)
             IN  IF j = 0 THEN NoMatch
                 ELSE [start |-> i, end |-> j + 2, block |-> SubSeq(s, q, j - 1)]

\* FENCED_BLOCK_RE at position i: the last index of the match, 0 when none
FencedMatchAt(s, i) ==
    IF StartsAt(s, Fence, i) /\ Find(s, Fence, i + 3) # 0
    THEN Find(s, Fence, i + 3) + 2
    ELSE IF StartsAt(s, QuoteFence, i) /\ Find(s, QuoteFence, i + 3) # 0
    THEN Find(s, QuoteFence, i + 3) + 2
    ELSE 0

\* FENCED_BLOCK_RE.sub("", text)
RECURSIVE StripFenced(_)
StripFenced(s) ==
    LET M == {i \in 1..Len(s) : FencedMatchAt(s, i) # 0}
    IN  IF M = {} THEN s
        ELSE LET i == MinOf(M)
             IN  SubSeq(s, 1, i - 1) \o StripFenced(Drop(s, FencedMatchAt(s, i)))

\* INLINE_CODE_RE at position i: ^([^^]+)^
InlineMatchAt(s, i) ==
    /\ i + 2 <= Len(s)
    /\ s[i] = BT
    /\ s[i + 1] # BT
    /\ SkipNonBT(s, i + 1) <= Len(s)

\* INLINE_CODE_RE.sub(r"\1", text)
RECURSIVE UnwrapInline(_)
UnwrapInline(s) ==
    LET M == {i \in 1..Len(s) : InlineMatchAt(s, i)}
    IN  IF M = {} THEN s
        ELSE LET i == MinOf(M)
                 k == SkipNonBT(s, i + 1)
             IN  SubSeq(s, 1, i - 1) \o SubSeq(s, i + 1, k - 1)
                   \o UnwrapInline(Drop(s, k))

\* re.sub(r"\s+", " ", text)
RECURSIVE CollapseWs(_)
CollapseWs(s) ==
    IF s = <<>> THEN <<>>
    ELSE IF Head(s) \in Whitespace THEN <<" ">> \o CollapseWs(LStrip(s))
    ELSE <<Head(s)>> \o CollapseWs(Tail(s))

clean_for_tts(text) == Strip(CollapseWs(UnwrapInline(StripFenced(text))))

\* re.split(r'(?<=[.!?])\s+', text)
RECURSIVE SplitSentences(_)
SplitSentences(s) ==
    LET B == {i \in 2..Len(s) : s[i] \in Whitespace /\ s[i - 1] \in Terminal}
    IN  IF B = {} THEN <<s>>
        ELSE LET i == MinOf(B)
             IN  <<SubSeq(s, 1, i - 1)>> \o SplitSentences(Drop(s, SkipWs(s, i) - 1))

\* ------------------------------------------------------ _run_tool_block

SAFE_TOOLS ==
    {"create_file", "edit_file", "read_file", "read", "cat", "list_dir", "ls",
     "find_file", "find", "add_macro_tool", "remove_macro_tool", "list_macros",
     "run_macro"}

\* the classes `except Exception` catches, among those a line can raise:
\* ast.parse (SyntaxError), the **kwargs check and ast.literal_eval
\* (ValueError), the call fn(**kwargs) (TypeError when the keywords do not
\* bind, OSError out of MacroStore._save)
ExceptionClasses == {"SyntaxError", "ValueError", "TypeError", "OSError"}

\* A line of a block after line.strip(), as ast.parse sees it:
\*   kind  "blank" | "comment" | "syntax" (ast.parse raises) |
\*         "notcall" (not ast.Call with an ast.Name func) | "call"
\*   func  call.func.id
\*   nargs len(call.args), the positional arguments
\*   kws   call.keywords, each "lit" (a literal value), "nonlit" (a value
\*         ast.literal_eval refuses) or "splat" (kw.arg is None)
\*   exc   what fn(**kwargs) raises, "none" when it returns
Line(kind, func, nargs, kws, exc) ==
    [kind |-> kind, func |-> func, nargs |-> nargs, kws |-> kws, exc |-> exc]

Skipped(line) == line.kind \in {"blank", "comment"}

\* the keyword loop of lines 104-108: the first exception it raises
KeywordError(kws) ==
    IF \E k \in 1..Len(kws) : kws[k] \in {"splat", "nonlit"}
    THEN "ValueError" ELSE "none"

\* the body of the try of lines 95-110 on one line: the result appended, the
\* exception raised ("none" when none) and whether fn(**kwargs) was called
TryLine(line) ==
    IF line.kind = "syntax"
    THEN [result |-> "none", exc |-> "SyntaxError", called |-> FALSE]
    ELSE IF line.kind # "call"
    THEN [result |-> "ERROR: unsupported line", exc |-> "none", called |-> FALSE]
    ELSE IF line.func \notin SAFE_TOOLS
    THEN [result |-> "ERROR: unknown tool", exc |-> "none", called |-> FALSE]
    ELSE IF KeywordError(line.kws) # "none"
    THEN [result |-> "none", exc |-> KeywordError(line.kws), called |-> FALSE]
    ELSE IF line.exc # "none"
    THEN [result |-> "none", exc |-> line.exc, called |-> TRUE]
    ELSE [result |-> "out", exc |-> "none", called |-> TRUE]

\* a handler for ValueError alone
CaughtValueError(exc) == exc = "ValueError"

\* `except Exception as e` of line 111
Caught(exc) == exc \in ExceptionClasses

\* one iteration of the for loop of lines 91-112 on a line that is not
\* skipped: the result appended, or the exception that leaves the function
RunLine(line) ==
    LET t == TryLine(line)
    IN  IF t.exc = "none"
        THEN [result |-> t.result, raised |-> "none", called |-> t.called]
        ELSE IF Caught(t.exc)
        THEN [result |-> "ERROR: exception", raised |-> "none", called |-> t.called]
        ELSE [result |-> "none", raised |-> t.exc, called |-> t.called]

\* _run_tool_block as a function of the lines: the list it returns
RECURSIVE run_tool_block(_)
run_tool_block(lines) ==
    IF lines = <<>> THEN <<>>
    ELSE IF Skipped(Head(lines)) THEN run_tool_block(Tail(lines))
    ELSE <<RunLine(Head(lines)).result>> \o run_tool_block(Tail(lines))

\* ------------------------------------------------- handle_request, text

\* str.splitlines()
RECURSIVE SplitLines(_)
SplitLines(s) ==
    IF s = <<>> THEN <<>>
    ELSE LET i == Find(s, <<"\n">>, 1)
         IN  IF i = 0 THEN <<s>>
             ELSE <<SubSeq(s, 1, i - 1)>> \o SplitLines(Drop(s, i))

\* what ast.parse makes of a stripped line of model text: the character "x"
\* stands for a well-formed call of a tool with no arguments, "y" for a call
\* of a name that is not in SAFE_TOOLS, "a" or "b" alone is a bare name,
\* and anything else does not parse
ParseLine(chars) ==
    IF chars = <<>> THEN Line("blank", "", 0, <<>>, "none")
    ELSE IF Head(chars) = "#" THEN Line("comment", "", 0, <<>>, "none")
    ELSE IF chars = <<"x">> THEN Line("call", "list_dir", 0, <<>>, "none")
    ELSE IF chars = <<"y">> THEN Line("call", "rm", 0, <<>>, "none")
    ELSE IF chars \in {<<"a">>, <<"b">>} THEN Line("notcall", "", 0, <<>>, "none")
    ELSE Line("syntax", "", 0, <<>>, "none")

\* block.strip().splitlines(), each line stripped (lines 91-92)
BlockLines(block) ==
    LET ls == SplitLines(Strip(block))
    IN  [k \in 1..Len(ls) |-> ParseLine(Strip(ls[k]))]

\* the text of a result string: a tool's output is "R", an error string "E"
ResultText(result) == IF result = "out" THEN <<"R">> ELSE <<"E">>

NonEmpty(s) == s # <<>>

\* lines 226-230 for one block: the messages put on the queue
BlockMessages(block) ==
    LET rs == run_tool_block(BlockLines(block))
    IN  SelectSeq([k \in 1..Len(rs) |-> clean_for_tts(ResultText(rs[k]))], NonEmpty)

\* the while loop of lines 218-230: the buffer with every block found
\* spliced out, and the blocks in the order they were run
RECURSIVE ToolBlockLoop(_)
ToolBlockLoop(a) ==
    LET m == ToolBlockSearch(a)
    IN  IF m.start = 0 THEN [accum |-> a, blocks |-> <<>>]
        ELSE LET r == ToolBlockLoop(SubSeq(a, 1, m.start - 1) \o Drop(a, m.end))
             IN  [accum |-> r.accum, blocks |-> <<m.block>> \o r.blocks]

\* every part, the last one too
AllParts(parts) == parts

\* parts[:-1] of line 236
Complete(parts) == SubSeq(parts, 1, Len(parts) - 1)

\* lines 233-241: the sentences put on the queue and the new tail
Segment(acc, tl) ==
    LET clean == clean_for_tts(acc)
        text  == Drop(tl \o clean, Len(tl))
        parts == SplitSentences(text)
        cs    == Complete(parts)
    IN  [units |-> SelectSeq([k \in 1..Len(cs) |-> Strip(cs[k])], NonEmpty),
         tail  |-> parts[Len(parts)]]

\* lines 211-241 on one response: raw is "".join(buf)
ProcessResponse(acc, tl, raw) ==
    LET lp   == ToolBlockLoop(acc \o raw)
        msgs == Flatten([k \in 1..Len(lp.blocks) |-> BlockMessages(lp.blocks[k])])
        sg   == Segment(lp.accum, tl)
    IN  [accum |-> lp.accum, tail |-> sg.tail, msgs |-> msgs, sents |-> sg.units,
         blocks |-> lp.blocks]

\* ----------------------------------------------------------------- state

Clients == {"c1", "c2"}
\* a loop that takes no utterance for an exit phrase
NoExitPhrases == {}

\* line 262
ExitPhrases == {"exit", "quit", "bye"}
\* what listen() hands back: nothing, an utterance, an exit phrase
Utterances == {"", "hi", "bye"}
Goodbye == <<"G">>

\* bounds of the model
MaxTurns == 2         \* utterances taken in a session, all clients together
MaxChunks == 1        \* audio buffers of one unit
MaxFrags == 3         \* non-empty fragments of a turn, in a single turn

\* fragments the model stream delivers
SessionFragments == {<<"a", ".", " ", "b">>}
SessionMaxFrags == Cardinality(SessionFragments)
TextFragments ==
    {<<>>, <<"h", ".", " ">>, <<"w">>, <<"^", "^", "^", "T", "\n">>,
     <<"x", "\n">>, <<"^", "^", "^">>,
     <<"^", "^", "^", "T", "\n", "x", "\n", "^", "^", "^">>}

VARIABLES
    connected_clients,  \* main.py:116
    speech_queue,       \* main.py:117, oldest first; each unit carries, beside
                        \* its text, the turn that put it and its number
                        \* in the order of the puts
    unfinished_tasks,   \* the count speech_queue.join() waits on
    spk,                \* speaker_task: its position and the unit it holds
    puts,               \* history: the number of units put on speech_queue
    synth,              \* history: the unit last handed to
                        \* generate_audio_chunks, the buffers it gave and
                        \* the number of calls so far
    aired,              \* history: the speaker's last broadcast
    pc,                 \* per client: the statement its handler is at
    user_input,         \* per client: handle_interaction's user_input
    turn,               \* per client: the number of utterances taken so far
    loopStart,          \* history, per client: turn when handle_interaction
                        \* was last entered
    accum, tail, spoken, buf,   \* per client: handle_request's locals
    nfrag,              \* per client: non-empty fragments received this turn
    received,           \* history, per client: the fragments of this response
    tokTimedOut,        \* history, per client: this response's collection
                        \* ended by the token-level timeout
    lastPass,           \* history, per client: what lines 211-241 last did
    flushed,            \* history, per client: the units lines 244-247 put
    bl,                 \* the tool-block loop of lines 218-230 run on its own
    tb,                 \* _run_tool_block run on its own
    pr,                 \* _resolve_target run on its own
    fs,                 \* a file tool of tools.py run on its own, with the
                        \* filesystem calls it has made
    ms                  \* the macro store and run_macro run on their own

sessVars == <<connected_clients, speech_queue, unfinished_tasks, spk,
              puts, synth, aired>>
cliVars == <<pc, user_input, turn, loopStart>>
hrVars == <<accum, tail, spoken, buf, nfrag, received, tokTimedOut,
            lastPass, flushed>>
pureVars == <<bl, tb, pr, fs, ms>>
vars == <<sessVars, cliVars, hrVars, pureVars>>

\* the functions run on their own are not running
IdleBl == [pc |-> "idle", orig |-> <<>>, accum |-> <<>>, blocks |-> <<>>]
IdleTb == [pc |-> "idle", lines |-> <<>>, i |-> 0, results |-> <<>>,
           called |-> {}, raised |-> "none"]
IdlePr == [pc |-> "idle"]
IdleFs == [pc |-> "idle"]
IdleMs == [pc |-> "idle"]

NoUnit == [text |-> <<>>, src |-> <<"", 0>>, id |-> 0]
NoPass == [ran |-> FALSE, afterTimeout |-> FALSE, before |-> <<>>, raw |-> <<>>,
           msgs |-> <<>>, sents |-> <<>>]

\* the units texts become when client c puts them, in order
Tagged(c, texts) ==
    [k \in 1..Len(texts) |->
        [text |-> texts[k], src |-> <<c, turn[c]>>, id |-> puts + k]]

\* await speech_queue.put(t) for each text: the queue is unbounded, so put
\* never suspends
Put(c, texts) ==
    /\ speech_queue' = speech_queue \o Tagged(c, texts)
    /\ unfinished_tasks' = unfinished_tasks + Len(texts)
    /\ puts' = puts + Len(texts)

InitSession ==
    /\ connected_clients = {}
    /\ speech_queue = <<>>
    /\ unfinished_tasks = 0
    /\ spk = [pc |-> "get", unit |-> NoUnit, chunks |-> 0, sent |-> 0]
    /\ puts = 0
    /\ synth = [unit |-> NoUnit, chunks |-> 0, count |-> 0]
    /\ aired = [kind |-> "none", id |-> 0, n |-> 0]

InitRequest ==
    /\ accum = [c \in Clients |-> <<>>]
    /\ tail = [c \in Clients |-> <<>>]
    /\ spoken = [c \in Clients |-> <<>>]
    /\ buf = [c \in Clients |-> <<>>]
    /\ nfrag = [c \in Clients |-> 0]
    /\ received = [c \in Clients |-> <<>>]
    /\ tokTimedOut = [c \in Clients |-> FALSE]
    /\ lastPass = [c \in Clients |-> NoPass]
    /\ flushed = [c \in Clients |-> <<>>]

Init ==
    /\ InitSession
    /\ InitRequest
    /\ pc = [c \in Clients |-> "closed"]
    /\ user_input = [c \in Clients |-> ""]
    /\ turn = [c \in Clients |-> 0]
    /\ loopStart = [c \in Clients |-> 0]
    /\ bl = IdleBl /\ tb = IdleTb /\ pr = IdlePr
    /\ fs = IdleFs /\ ms = IdleMs

\* ------------------------------------- websocket_handler, handle_interaction

\* websocket_handler, line 272
Connect(c) ==
    /\ pc[c] = "closed"
    /\ connected_clients' = connected_clients \cup {c}
    /\ pc' = [pc EXCEPT ![c] = "open"]
    /\ UNCHANGED <<speech_queue, unfinished_tasks, spk, puts, synth, aired,
                   user_input, turn, loopStart, hrVars>>
    /\ UNCHANGED pureVars

\* lines 275-278: the client sends {"action": "start"}
Start(c) ==
    /\ pc[c] = "open"
    /\ pc' = [pc EXCEPT ![c] = "bcast_idle"]
    /\ loopStart' = [loopStart EXCEPT ![c] = turn[c]]
    /\ UNCHANGED <<sessVars, user_input, turn, hrVars>>
    /\ UNCHANGED pureVars

\* await broadcast(state), lines 254, 257, 266: the message goes out to the
\* observers and the handler moves on
Broadcast(c, at, state, to) ==
    /\ pc[c] = at
    /\ pc' = [pc EXCEPT ![c] = to]
    /\ UNCHANGED <<connected_clients, speech_queue, unfinished_tasks, spk, puts,
                   synth, aired, user_input, turn, loopStart, hrVars>>
    /\ UNCHANGED pureVars

BroadcastIdle(c) == Broadcast(c, "bcast_idle", "idle", "bcast_listening")
BroadcastListening(c) == Broadcast(c, "bcast_listening", "listening", "listen")
BroadcastThinking(c) == Broadcast(c, "bcast_thinking", "thinking", "hr_begin")

RECURSIVE SumOver(_, _)
SumOver(f, S) ==
    IF S = {} THEN 0
    ELSE LET e == CHOOSE e \in S : TRUE IN f[e] + SumOver(f, S \ {e})
TurnsTaken == SumOver(turn, Clients)

\* lines 259-265: listen() returns u
Listen(c, u) ==
    /\ pc[c] = "listen"
    /\ IF u = ""
       THEN /\ pc' = [pc EXCEPT ![c] = "bcast_listening"]
            /\ user_input' = [user_input EXCEPT ![c] = u]
            /\ UNCHANGED <<sessVars, turn>>
       ELSE /\ TurnsTaken < MaxTurns
            /\ turn' = [turn EXCEPT ![c] = @ + 1]
            /\ user_input' = [user_input EXCEPT ![c] = u]
            /\ IF u \in ExitPhrases
               THEN /\ speech_queue' = Append(speech_queue,
                          [text |-> Goodbye, src |-> <<c, turn[c] + 1>>, id |-> puts + 1])
                    /\ puts' = puts + 1
                    /\ unfinished_tasks' = unfinished_tasks + 1
                    /\ pc' = [pc EXCEPT ![c] = "exit_join"]
                    /\ UNCHANGED <<connected_clients, spk, synth, aired>>
               ELSE /\ pc' = [pc EXCEPT ![c] = "bcast_thinking"]
                    /\ UNCHANGED sessVars
    /\ UNCHANGED <<loopStart, hrVars>>
    /\ UNCHANGED pureVars

\* a join that returns at once, whatever is still queued
JoinNever == TRUE

\* speech_queue.join() returns once every unit put has been marked done
JoinReady == unfinished_tasks = 0

\* line 268, then back to the top of the loop
Join(c) ==
    /\ pc[c] = "join"
    /\ JoinReady
    /\ pc' = [pc EXCEPT ![c] = "bcast_listening"]
    /\ UNCHANGED <<sessVars, user_input, turn, loopStart, hrVars>>
    /\ UNCHANGED pureVars

\* lines 264-265: the loop ends and the handler waits for the next message
ExitJoin(c) ==
    /\ pc[c] = "exit_join"
    /\ JoinReady
    /\ pc' = [pc EXCEPT ![c] = "open"]
    /\ user_input' = [user_input EXCEPT ![c] = ""]
    /\ UNCHANGED <<sessVars, turn, loopStart, hrVars>>
    /\ UNCHANGED pureVars

\* ---------------------------------------------------------- handle_request

\* lines 181-200: the memory lookup (an exception leaves memory_text empty),
\* the prompt, the chain and the turn's empty locals
HrBegin(c) ==
    /\ pc[c] = "hr_begin"
    /\ accum' = [accum EXCEPT ![c] = <<>>]
    /\ tail' = [tail EXCEPT ![c] = <<>>]
    /\ spoken' = [spoken EXCEPT ![c] = <<>>]
    /\ buf' = [buf EXCEPT ![c] = <<>>]
    /\ nfrag' = [nfrag EXCEPT ![c] = 0]
    /\ received' = [received EXCEPT ![c] = <<>>]
    /\ tokTimedOut' = [tokTimedOut EXCEPT ![c] = FALSE]
    /\ lastPass' = [lastPass EXCEPT ![c] = NoPass]
    /\ flushed' = [flushed EXCEPT ![c] = <<>>]
    /\ pc' = [pc EXCEPT ![c] = "await_resp"]
    /\ UNCHANGED <<sessVars, user_input, turn, loopStart>>
    /\ UNCHANGED pureVars

\* line 203: chain.responses() yields the next response; line 205
NextResponse(c) ==
    /\ pc[c] = "await_resp"
    /\ buf' = [buf EXCEPT ![c] = <<>>]
    /\ received' = [received EXCEPT ![c] = <<>>]
    /\ tokTimedOut' = [tokTimedOut EXCEPT ![c] = FALSE]
    /\ pc' = [pc EXCEPT ![c] = "await_tok"]
    /\ UNCHANGED <<sessVars, user_input, turn, loopStart, accum, tail, spoken, nfrag,
                   lastPass, flushed>>
    /\ UNCHANGED pureVars

\* line 128 at the response level: StopAsyncIteration
EndResponses(c) ==
    /\ pc[c] = "await_resp"
    /\ pc' = [pc EXCEPT ![c] = "flush"]
    /\ UNCHANGED <<sessVars, user_input, turn, loopStart, hrVars>>
    /\ UNCHANGED pureVars

\* lines 130-132 at the response level: no response comes for
\* RESP_TIMEOUT_S and the wait is given up
RespTimeout(c) ==
    /\ pc[c] = "await_resp"
    /\ pc' = [pc EXCEPT ![c] = "flush"]
    /\ UNCHANGED <<sessVars, user_input, turn, loopStart, hrVars>>
    /\ UNCHANGED pureVars

\* lines 206-209: the response yields fragment f; an empty one is dropped
NextToken(c, f, limit) ==
    /\ pc[c] = "await_tok"
    /\ IF f = <<>>
       THEN UNCHANGED <<buf, nfrag, received>>
       ELSE /\ nfrag[c] < limit
            /\ buf' = [buf EXCEPT ![c] = Append(@, f)]
            /\ received' = [received EXCEPT ![c] = Append(@, f)]
            /\ nfrag' = [nfrag EXCEPT ![c] = @ + 1]
    /\ UNCHANGED <<sessVars, cliVars, accum, tail, spoken, tokTimedOut,
                   lastPass, flushed>>
    /\ UNCHANGED pureVars

\* line 128 at the token level: StopAsyncIteration
EndTokens(c) ==
    /\ pc[c] = "await_tok"
    /\ pc' = [pc EXCEPT ![c] = "process"]
    /\ UNCHANGED <<sessVars, user_input, turn, loopStart, hrVars>>
    /\ UNCHANGED pureVars

\* a timeout that drops what was collected
KeptNothing(b) == <<>>

\* what the token-level timeout leaves of the fragments collected so far:
\* the break of line 132 ends the generator, buf is untouched
KeptOnTimeout(b) == b

\* lines 130-132 at the token level: no fragment comes for TOKEN_TIMEOUT_S
\* and the wait is given up
TokTimeout(c) ==
    /\ pc[c] = "await_tok"
    /\ buf' = [buf EXCEPT ![c] = KeptOnTimeout(@)]
    /\ tokTimedOut' = [tokTimedOut EXCEPT ![c] = TRUE]
    /\ pc' = [pc EXCEPT ![c] = "process"]
    /\ UNCHANGED <<sessVars, user_input, turn, loopStart, accum, tail, spoken, nfrag, received,
                   lastPass, flushed>>
    /\ UNCHANGED pureVars

\* lines 211-241: an empty response is skipped; otherwise the tool blocks
\* are run, their results and the complete sentences are put on the queue.
\* buf is joined into raw at line 211 and not read again before line 205
\* replaces it
Process(c) ==
    /\ pc[c] = "process"
    /\ pc' = [pc EXCEPT ![c] = "await_resp"]
    /\ buf' = [buf EXCEPT ![c] = <<>>]
    /\ received' = [received EXCEPT ![c] = <<>>]
    /\ tokTimedOut' = [tokTimedOut EXCEPT ![c] = FALSE]
    /\ LET raw == Flatten(buf[c])
           r   == ProcessResponse(accum[c], tail[c], raw)
       IN  IF raw = <<>>
           THEN UNCHANGED <<sessVars, accum, tail, spoken, lastPass>>
           ELSE /\ accum' = [accum EXCEPT ![c] = r.accum]
                /\ tail' = [tail EXCEPT ![c] = r.tail]
                /\ spoken' = [spoken EXCEPT ![c] = @ \o r.msgs \o r.sents]
                /\ Put(c, r.msgs \o r.sents)
                /\ lastPass' = [lastPass EXCEPT ![c] =
                       [ran |-> TRUE, afterTimeout |-> tokTimedOut[c],
                        before |-> accum[c], raw |-> raw,
                        msgs |-> r.msgs, sents |-> r.sents]]
                /\ UNCHANGED <<connected_clients, spk, synth, aired>>
    /\ UNCHANGED <<user_input, turn, loopStart, nfrag, flushed>>
    /\ UNCHANGED pureVars

\* lines 244-247
Flush(c) ==
    /\ pc[c] = "flush"
    /\ pc' = [pc EXCEPT ![c] = "store"]
    /\ LET last == Strip(clean_for_tts(tail[c]))
       IN  IF last # <<>>
           THEN /\ Put(c, <<last>>)
                /\ spoken' = [spoken EXCEPT ![c] = Append(@, last)]
                /\ flushed' = [flushed EXCEPT ![c] = Append(@, last)]
                /\ UNCHANGED <<connected_clients, spk, synth, aired>>
           ELSE UNCHANGED <<sessVars, spoken, flushed>>
    /\ UNCHANGED <<user_input, turn, loopStart, accum, tail, buf, nfrag, received,
                   tokTimedOut, lastPass>>
    /\ UNCHANGED pureVars

\* handle_request is left: its locals are gone
Return(c) ==
    /\ accum' = [accum EXCEPT ![c] = <<>>]
    /\ tail' = [tail EXCEPT ![c] = <<>>]
    /\ spoken' = [spoken EXCEPT ![c] = <<>>]
    /\ buf' = [buf EXCEPT ![c] = <<>>]
    /\ nfrag' = [nfrag EXCEPT ![c] = 0]
    /\ received' = [received EXCEPT ![c] = <<>>]
    /\ tokTimedOut' = [tokTimedOut EXCEPT ![c] = FALSE]
    /\ lastPass' = [lastPass EXCEPT ![c] = NoPass]
    /\ flushed' = [flushed EXCEPT ![c] = <<>>]

\* line 250 returns: handle_request is over, line 268 is next
StoreMemory(c) ==
    /\ pc[c] = "store"
    /\ pc' = [pc EXCEPT ![c] = "join"]
    /\ Return(c)
    /\ UNCHANGED <<sessVars, user_input, turn, loopStart>>
    /\ UNCHANGED pureVars

\* line 250 raises: the exception leaves handle_request and
\* handle_interaction and is caught at line 279; line 282 drops the client
StoreMemoryFails(c) ==
    /\ pc[c] = "store"
    /\ pc' = [pc EXCEPT ![c] = "closed"]
    /\ connected_clients' = connected_clients \ {c}
    /\ Return(c)
    /\ UNCHANGED <<speech_queue, unfinished_tasks, spk, puts, synth, aired,
                   user_input, turn, loopStart>>
    /\ UNCHANGED pureVars

\* ------------------------------------------------------------ speaker_task

\* a get that takes the newest unit
QueueGetNewest(q) == [unit |-> q[Len(q)], rest |-> SubSeq(q, 1, Len(q) - 1)]

\* speech_queue.get() of line 150: the oldest unit and what is left
QueueGet(q) == [unit |-> Head(q), rest |-> Tail(q)]

\* line 150
SpkGet ==
    /\ spk.pc = "get"
    /\ speech_queue # <<>>
    /\ speech_queue' = QueueGet(speech_queue).rest
    /\ spk' = [pc |-> "announce", unit |-> QueueGet(speech_queue).unit,
               chunks |-> 0, sent |-> 0]
    /\ UNCHANGED <<connected_clients, unfinished_tasks, puts, synth, aired,
                   cliVars, hrVars>>
    /\ UNCHANGED pureVars

\* line 153
SpkAnnounce ==
    /\ spk.pc = "announce"
    /\ aired' = [kind |-> "speaking", id |-> spk.unit.id, n |-> 0]
    /\ spk' = [spk EXCEPT !.pc = "synth"]
    /\ UNCHANGED <<connected_clients, speech_queue, unfinished_tasks, puts, synth,
                   cliVars, hrVars>>
    /\ UNCHANGED pureVars

\* lines 156-161: generate_audio_chunks(text) yields k buffers
SpkSynth(k) ==
    /\ spk.pc = "synth"
    /\ synth' = [unit |-> spk.unit, chunks |-> k, count |-> synth.count + 1]
    /\ spk' = [spk EXCEPT !.pc = "audio", !.chunks = k]
    /\ UNCHANGED <<connected_clients, speech_queue, unfinished_tasks, puts,
                   aired, cliVars, hrVars>>
    /\ UNCHANGED pureVars

\* a speaker that skips task_done when the synthesis has failed
SynthFailsUndone ==
    /\ spk.pc = "synth"
    /\ synth' = [unit |-> spk.unit, chunks |-> 0, count |-> synth.count + 1]
    /\ spk' = [spk EXCEPT !.pc = "get", !.unit = NoUnit, !.chunks = 0, !.sent = 0]
    /\ UNCHANGED <<connected_clients, speech_queue, unfinished_tasks, puts,
                   aired, cliVars, hrVars>>
    /\ UNCHANGED pureVars

\* lines 164-165: generate_audio_chunks(text) raises, nothing is broadcast
SpkSynthFails ==
    /\ spk.pc = "synth"
    /\ synth' = [unit |-> spk.unit, chunks |-> 0, count |-> synth.count + 1]
    /\ spk' = [spk EXCEPT !.pc = "audio", !.chunks = 0]
    /\ UNCHANGED <<connected_clients, speech_queue, unfinished_tasks, puts,
                   aired, cliVars, hrVars>>
    /\ UNCHANGED pureVars

\* lines 162-163: the next buffer
SpkAudio ==
    /\ spk.pc = "audio"
    /\ spk.sent < spk.chunks
    /\ aired' = [kind |-> "audio", id |-> spk.unit.id, n |-> spk.sent + 1]
    /\ spk' = [spk EXCEPT !.sent = @ + 1]
    /\ UNCHANGED <<connected_clients, speech_queue, unfinished_tasks, puts, synth,
                   cliVars, hrVars>>
    /\ UNCHANGED pureVars

\* line 166
SpkTaskDone ==
    /\ spk.pc = "audio"
    /\ spk.sent = spk.chunks
    /\ unfinished_tasks' = unfinished_tasks - 1
    /\ spk' = [spk EXCEPT !.pc = "get", !.unit = NoUnit, !.chunks = 0, !.sent = 0]
    /\ UNCHANGED <<connected_clients, speech_queue, puts, synth, aired,
                   cliVars, hrVars>>
    /\ UNCHANGED pureVars

Speaker == SpkGet \/ SpkAnnounce \/ (\E k \in 0..MaxChunks : SpkSynth(k))
             \/ SpkSynthFails \/ SpkAudio \/ SpkTaskDone

\* ----------------------------------------------------------- specifications

Interaction(c) ==
    \/ Connect(c) \/ Start(c)
    \/ BroadcastIdle(c) \/ BroadcastListening(c) \/ BroadcastThinking(c)
    \/ (\E u \in Utterances : Listen(c, u))
    \/ Join(c) \/ ExitJoin(c)

Request(c, frags, limit) ==
    \/ HrBegin(c)
    \/ NextResponse(c) \/ EndResponses(c) \/ RespTimeout(c)
    \/ (\E f \in frags : NextToken(c, f, limit))
    \/ EndTokens(c) \/ TokTimeout(c)
    \/ Process(c) \/ Flush(c)
    \/ StoreMemory(c) \/ StoreMemoryFails(c)

\* the whole session: any number of clients, the speaker
Next ==
    \/ \E c \in Clients : Interaction(c)
    \/ \E c \in Clients : Request(c, SessionFragments, SessionMaxFrags)
    \/ Speaker

Spec == Init /\ [][Next]_vars

\* one turn of one client: handle_request has just been called
InitTurn ==
    /\ InitSession
    /\ InitRequest
    /\ pc = [c \in Clients |-> IF c = "c1" THEN "hr_begin" ELSE "closed"]
    /\ user_input = [c \in Clients |-> IF c = "c1" THEN "hi" ELSE ""]
    /\ turn = [c \in Clients |-> IF c = "c1" THEN 1 ELSE 0]
    /\ loopStart = [c \in Clients |-> 0]
    /\ bl = IdleBl /\ tb = IdleTb /\ pr = IdlePr
    /\ fs = IdleFs /\ ms = IdleMs

NextTurn == Request("c1", TextFragments, MaxFrags)

SpecTurn == InitTurn /\ [][NextTurn]_vars

\* at every wait the stream delivers or ends, or the timer fires, and the
\* event loop runs a coroutine that is ready
FairTurn == SpecTurn /\ WF_vars(NextTurn)

\* broadcast, lines 141-145, as speaker_task calls it at line 153 or 163:
\* the send to observer c raises ConnectionClosed and c is discarded; the
\* broadcast goes on with the other observers
SendFails(c) ==
    /\ \/ spk.pc = "announce"
       \/ spk.pc = "audio" /\ spk.sent < spk.chunks
    /\ c \in connected_clients
    /\ connected_clients' = connected_clients \ {c}
    /\ UNCHANGED <<speech_queue, unfinished_tasks, spk, puts, synth, aired,
                   cliVars, hrVars>>
    /\ UNCHANGED pureVars

\* one interaction loop, a second client that only observes, the speaker,
\* and sends that fail
NextSpeaker ==
    \/ Interaction("c1")
    \/ Request("c1", SessionFragments, SessionMaxFrags)
    \/ Connect("c2")
    \/ Speaker
    \/ \E c \in Clients : SendFails(c)

SpecSpeaker == Init /\ [][NextSpeaker]_vars

\* speaker_task is a task of the event loop: each of its awaits (the queue's
\* get once a unit is there, the sends, the executor's future) completes;
\* a coroutine whose join is ready is resumed
FairSpeaker ==
    /\ SpecSpeaker
    /\ WF_vars(Speaker)
    /\ WF_vars(Join("c1"))
    /\ WF_vars(ExitJoin("c1"))

\* nothing is connected and no turn runs
Quiet ==
    /\ InitSession
    /\ InitRequest
    /\ pc = [c \in Clients |-> "closed"]
    /\ user_input = [c \in Clients |-> ""]
    /\ turn = [c \in Clients |-> 0]
    /\ loopStart = [c \in Clients |-> 0]

\* ------------------------------------ the tool-block loop, run on its own

\* what buffers are made of: a fence, the word tool_code, a tool line, text
BlockPieces == {Fence, <<"T">>, <<"x">>, <<"h">>}
MaxPieces == 7

\* the buffers of at most n pieces
RECURSIVE Buffers(_)
Buffers(n) ==
    IF n = 0 THEN {<<>>}
    ELSE Buffers(n - 1) \cup {s \o p : s \in Buffers(n - 1), p \in BlockPieces}

InitBlocks ==
    /\ Quiet
    /\ bl \in {[pc |-> "search", orig |-> s, accum |-> s, blocks |-> <<>>] :
                  s \in Buffers(MaxPieces)}
    /\ tb = IdleTb /\ pr = IdlePr /\ fs = IdleFs /\ ms = IdleMs

\* lines 219-230: a block is found, spliced out of accum and run
BlRemove ==
    /\ bl.pc = "search"
    /\ ToolBlockSearch(bl.accum).start # 0
    /\ LET m == ToolBlockSearch(bl.accum)
       IN  bl' = [bl EXCEPT !.accum = SubSeq(@, 1, m.start - 1) \o Drop(@, m.end),
                            !.blocks = Append(@, m.block)]
    /\ UNCHANGED <<sessVars, cliVars, hrVars, tb, pr, fs, ms>>

\* lines 220-221: no block is left
BlBreak ==
    /\ bl.pc = "search"
    /\ ToolBlockSearch(bl.accum).start = 0
    /\ bl' = [bl EXCEPT !.pc = "done"]
    /\ UNCHANGED <<sessVars, cliVars, hrVars, tb, pr, fs, ms>>

NextBlocks == BlRemove \/ BlBreak

SpecBlocks == InitBlocks /\ [][NextBlocks]_vars

\* ------------------------------------------ _run_tool_block, run on its own

\* the lines a block is made of
ToolLines ==
    {Line("blank", "", 0, <<>>, "none"),
     Line("comment", "", 0, <<>>, "none"),
     Line("syntax", "", 0, <<>>, "none"),                         \* list_dir(
     Line("notcall", "", 0, <<>>, "none"),                        \* os.getcwd()
     Line("call", "rm", 0, <<"lit">>, "none"),                    \* rm(path="a")
     Line("call", "list_dir", 0, <<>>, "none"),                   \* list_dir()
     Line("call", "list_dir", 1, <<>>, "none"),                   \* list_dir("docs")
     Line("call", "create_file", 0, <<"lit", "lit">>, "none"),
     Line("call", "create_file", 0, <<"lit", "nonlit">>, "none"), \* content=f()
     Line("call", "create_file", 0, <<"splat">>, "none"),         \* **d
     Line("call", "find_file", 0, <<"lit">>, "TypeError"),        \* find_file(nam="a")
     Line("call", "add_macro_tool", 0, <<"lit", "lit">>, "OSError")}
MaxLines == 3

\* the blocks of at most n lines
RECURSIVE Blocks(_)
Blocks(n) ==
    IF n = 0 THEN {<<>>}
    ELSE Blocks(n - 1) \cup {Append(b, l) : b \in Blocks(n - 1), l \in ToolLines}

InitTool ==
    /\ Quiet
    /\ tb \in {[pc |-> "loop", lines |-> b, i |-> 1, results |-> <<>>,
                  called |-> {}, raised |-> "none"] : b \in Blocks(MaxLines)}
    /\ bl = IdleBl /\ pr = IdlePr /\ fs = IdleFs /\ ms = IdleMs

\* lines 92-94: a blank line or a comment
TbSkip ==
    /\ tb.pc = "loop"
    /\ tb.i <= Len(tb.lines)
    /\ Skipped(tb.lines[tb.i])
    /\ tb' = [tb EXCEPT !.i = @ + 1]
    /\ UNCHANGED <<sessVars, cliVars, hrVars, bl, pr, fs, ms>>

\* lines 95-112: the try on one line
TbRun ==
    /\ tb.pc = "loop"
    /\ tb.i <= Len(tb.lines)
    /\ ~Skipped(tb.lines[tb.i])
    /\ LET r == RunLine(tb.lines[tb.i])
           called == IF r.called THEN tb.called \cup {tb.i} ELSE tb.called
       IN  IF r.raised # "none"
           THEN tb' = [tb EXCEPT !.pc = "raised", !.raised = r.raised,
                                 !.called = called]
           ELSE tb' = [tb EXCEPT !.i = @ + 1, !.results = Append(@, r.result),
                                 !.called = called]
    /\ UNCHANGED <<sessVars, cliVars, hrVars, bl, pr, fs, ms>>

\* line 113
TbReturn ==
    /\ tb.pc = "loop"
    /\ tb.i > Len(tb.lines)
    /\ tb' = [tb EXCEPT !.pc = "returned"]
    /\ UNCHANGED <<sessVars, cliVars, hrVars, bl, pr, fs, ms>>

NextTool == TbSkip \/ TbRun \/ TbReturn

SpecTool == InitTool /\ [][NextTool]_vars

\* ------------------------------------------------ tools.py: path resolution

\* A path is text; os.sep is "/".  FS_ROOT is /r, WORKDIR the default
\* FS_ROOT/workspace, written /r/w; the home directory /h lies outside FS_ROOT.
Sep == "/"
DotDot == <<".", ".">>
FS_ROOT == <<"/", "r">>
WORKDIR == <<"/", "r", "/", "w">>
Home == <<"/", "h">>

\* str.split(ch)
RECURSIVE SplitOn(_, _)
SplitOn(s, ch) ==
    LET i == Find(s, <<ch>>, 1)
    IN  IF i = 0 THEN <<s>>
        ELSE <<SubSeq(s, 1, i - 1)>> \o SplitOn(Drop(s, i), ch)

\* the loop of posixpath.normpath over the components of an absolute path:
\* "" and "." are dropped, ".." removes the component before it, if any
RECURSIVE NormComps(_, _)
NormComps(comps, new) ==
    IF comps = <<>> THEN new
    ELSE LET comp == Head(comps)
         IN  IF comp \in {<<>>, <<".">>} THEN NormComps(Tail(comps), new)
             ELSE IF comp # DotDot THEN NormComps(Tail(comps), Append(new, comp))
             ELSE IF new # <<>>
             THEN NormComps(Tail(comps), SubSeq(new, 1, Len(new) - 1))
             ELSE NormComps(Tail(comps), new)

\* posixpath.normpath of an absolute path: exactly two leading slashes are
\* kept
normpath(path) ==
    LET two == StartsAt(path, <<Sep, Sep>>, 1) /\ ~StartsAt(path, <<Sep, Sep, Sep>>, 1)
    IN  (IF two THEN <<Sep, Sep>> ELSE <<Sep>>)
            \o JoinWith(NormComps(SplitOn(path, Sep), <<>>), <<Sep>>)

\* the joined path taken as it is
NoAbspath(path) == path

\* os.path.abspath of an absolute path
abspath(path) == normpath(path)

\* os.path.join(a, b)
join(a, b) ==
    IF b # <<>> /\ Head(b) = Sep THEN b
    ELSE IF a = <<>> \/ a[Len(a)] = Sep THEN a \o b
    ELSE a \o <<Sep>> \o b

\* os.path.join(a, *parts)
RECURSIVE JoinAll(_, _)
JoinAll(a, parts) ==
    IF parts = <<>> THEN a ELSE JoinAll(join(a, Head(parts)), Tail(parts))

RECURSIVE RStripSep(_)
RStripSep(s) ==
    IF s # <<>> /\ s[Len(s)] = Sep THEN RStripSep(SubSeq(s, 1, Len(s) - 1)) ELSE s

\* the index of the last "/" of a text, 0 when none
LastSep(s) ==
    IF \E i \in 1..Len(s) : s[i] = Sep
    THEN CHOOSE i \in 1..Len(s) : s[i] = Sep /\ \A j \in (i + 1)..Len(s) : s[j] # Sep
    ELSE 0

\* os.path.dirname
dirname(path) ==
    LET head == SubSeq(path, 1, LastSep(path))
    IN  IF head # <<>> /\ RStripSep(head) # <<>> THEN RStripSep(head) ELSE head

\* os.path.basename
basename(path) == Drop(path, LastSep(path))

\* lines 50-53: the path, or none with the error "path escapes sandbox"
join_safe(base, rel) ==
    LET path == abspath(join(base, rel))
    IN  IF ~StartsAt(path, FS_ROOT \o <<Sep>>, 1) /\ path # FS_ROOT
        THEN [ok |-> FALSE, path |-> path]
        ELSE [ok |-> TRUE, path |-> path]

\* lines 77-79
ensure_txt(name) ==
    IF \E i \in 1..Len(basename(name)) : basename(name)[i] = "."
    THEN name ELSE name \o <<".", "t", "x", "t">>

\* lines 13-31: the hint directories, of which only those that exist are
\* kept; FS_ROOT and WORKDIR exist
HintGuess(key) ==
    IF key = "home" THEN Home
    ELSE IF key = "desktop" THEN join(Home, <<"d">>)
    ELSE IF key = "repo" THEN FS_ROOT
    ELSE IF key = "backend" THEN join(FS_ROOT, <<"b">>)
    ELSE IF key = "workspace" THEN WORKDIR
    ELSE <<>>

dir_hint_map(dirs) ==
    [key \in {"repo", "workspace"} \cup dirs |-> abspath(HintGuess(key))]

\* The hint phrase `in <hint_key>` that line 60 finds in a filename, as the
\* components of hint_key.split("/"), the first a key of the hint map;
\* <<>> when the filename has no hint phrase.  hint_key matches
\* [a-z0-9_\-\/]+, so no component of it holds a dot.
HintKeys ==
    {<<>>, <<"home">>, <<"desktop">>, <<"repo">>, <<"backend">>, <<"attic">>,
     <<"repo", <<"x">> >>, <<"home", <<"x">> >>, <<"attic", <<"x">> >>}

\* lines 61-75: the hint directory, <<>> for None
parse_dir_hint(key, dirs) ==
    LET hint_map == dir_hint_map(dirs)
    IN  IF key = <<>> THEN <<>>
        ELSE IF Len(key) = 1
        THEN (IF key[1] \in DOMAIN hint_map THEN abspath(hint_map[key[1]]) ELSE <<>>)
        ELSE IF key[1] \in DOMAIN hint_map
        THEN abspath(JoinAll(hint_map[key[1]], Tail(key)))
        ELSE <<>>

\* what is left of a filename after lines 83-86, made of these pieces
NamePieces == {<<Sep>>, DotDot, <<"x">>, <<"r">>}
MaxParts == 4

RECURSIVE Names(_)
Names(n) ==
    IF n = 0 THEN {<<>>}
    ELSE Names(n - 1) \cup {s \o q : s \in Names(n - 1), q \in NamePieces}

\* _resolve_target is called with a filename that leaves name and the hint
\* phrase key, with create_dirs, while the directories dirs exist
InitPath ==
    /\ Quiet
    /\ pr \in {[pc |-> "hint", name |-> n, key |-> k, dirs |-> d, create |-> cr,
                base |-> <<>>, rel |-> <<>>, outcome |-> "none", path |-> <<>>] :
                  n \in Names(MaxParts), k \in HintKeys,
                  d \in SUBSET {"home", "backend"}, cr \in BOOLEAN}
    /\ bl = IdleBl /\ tb = IdleTb /\ fs = IdleFs /\ ms = IdleMs

\* lines 83-93
PrBase ==
    /\ pr.pc = "hint"
    /\ LET hint_dir == parse_dir_hint(pr.key, pr.dirs)
           rel == IF \E i \in 1..Len(pr.name) : pr.name[i] = Sep
                  THEN pr.name ELSE ensure_txt(pr.name)
       IN  pr' = [pr EXCEPT !.rel = rel,
                            !.base = IF hint_dir # <<>> THEN hint_dir ELSE WORKDIR,
                            !.pc = IF pr.create THEN "subdir" ELSE "join"]
    /\ UNCHANGED <<sessVars, cliVars, hrVars, bl, tb, fs, ms>>

\* lines 94-99: with create_dirs the folders of rel are made, inside the
\* sandbox or not at all
PrSubdir ==
    /\ pr.pc = "subdir"
    /\ LET subdir == dirname(pr.rel)
       IN  IF subdir # <<>> /\ ~join_safe(pr.base, subdir).ok
           THEN pr' = [pr EXCEPT !.pc = "done", !.outcome = "escapes",
                                 !.path = join_safe(pr.base, subdir).path]
           ELSE pr' = [pr EXCEPT !.pc = "join"]
    /\ UNCHANGED <<sessVars, cliVars, hrVars, bl, tb, fs, ms>>

\* line 101
PrJoin ==
    /\ pr.pc = "join"
    /\ pr' = [pr EXCEPT !.pc = "done",
                        !.outcome = IF join_safe(pr.base, pr.rel).ok
                                    THEN "ok" ELSE "escapes",
                        !.path = join_safe(pr.base, pr.rel).path]
    /\ UNCHANGED <<sessVars, cliVars, hrVars, bl, tb, fs, ms>>

NextPath == PrBase \/ PrSubdir \/ PrJoin

SpecPath == InitPath /\ [][NextPath]_vars

\* ------------------------------------------- tools.py: the file tools

\* _resolve_target as a function (lines 81-101): whether it returns, the path
\* it returns or rejects, and the folder of rel that line 99 makes
resolve_target(name, key, dirs, create_dirs) ==
    LET hint_dir == parse_dir_hint(key, dirs)
        rel == IF \E i \in 1..Len(name) : name[i] = Sep
               THEN name ELSE ensure_txt(name)
        base == IF hint_dir # <<>> THEN hint_dir ELSE WORKDIR
        subdir == dirname(rel)
    IN  IF create_dirs /\ subdir # <<>> /\ ~join_safe(base, subdir).ok
        THEN [ok |-> FALSE, path |-> join_safe(base, subdir).path,
              base |-> base, folder |-> <<>>]
        ELSE [ok |-> join_safe(base, rel).ok, path |-> join_safe(base, rel).path,
              base |-> base,
              folder |-> IF create_dirs /\ subdir # <<>>
                         THEN join_safe(base, subdir).path ELSE <<>>]

\* the words of a hint key, as text
KeyText(key) ==
    <<key[1]>> \o Flatten([k \in 1..(Len(key) - 1) |-> <<Sep>> \o key[k + 1]])

\* a filename as the tool receives it: the name followed by the hint phrase
RawName(name, key) ==
    IF key = <<>> THEN name ELSE name \o <<" ", "in", " ">> \o KeyText(key)

FileTools == {"create_file", "read_file", "list_dir"}
MaxNameParts == 2

\* the directories that exist when the tool is called
StartDirs(dirs) ==
    {<<Sep>>, FS_ROOT, WORKDIR} \cup {abspath(HintGuess(k)) : k \in dirs}

\* a file under FS_ROOT that _find_candidates may come up with
FoundFile == <<Sep, "r", Sep, "w", Sep, "f">>

\* A call tool(name + hint phrase).  dirs are the hint directories that
\* exist, there says whether the path the tool arrives at exists, io is
\* the set of filesystem calls made so far that read, list or change
\* something.
InitFs ==
    /\ Quiet
    /\ fs \in {[pc |-> "call", tool |-> t, name |-> n, key |-> k, dirs |-> d,
                there |-> th, base |-> <<>>, path |-> <<>>, made |-> {},
                io |-> {}, result |-> "none"] :
                  t \in FileTools, n \in Names(MaxNameParts), k \in HintKeys,
                  d \in SUBSET {"home", "backend"}, th \in BOOLEAN}
    /\ bl = IdleBl /\ tb = IdleTb /\ pr = IdlePr /\ ms = IdleMs

FsOthers == <<sessVars, cliVars, hrVars, bl, tb, pr, ms>>

FsDone(result) == fs' = [fs EXCEPT !.pc = "done", !.result = result]

\* lines 124-131, 148-151, 182-183: the argument checks
FsCall ==
    /\ fs.pc = "call"
    /\ IF RawName(fs.name, fs.key) # <<>> THEN fs' = [fs EXCEPT !.pc = "hint"]
       ELSE IF fs.tool = "list_dir"
       THEN fs' = [fs EXCEPT !.pc = "list", !.base = WORKDIR]
       ELSE FsDone("ERROR: missing filename")
    /\ UNCHANGED FsOthers

\* _parse_dir_hint, lines 60-75: a subpath hint that is not a directory yet
\* is made at line 74
FsHint ==
    /\ fs.pc = "hint"
    /\ LET hint == parse_dir_hint(fs.key, fs.dirs)
           new == Len(fs.key) > 1 /\ hint # <<>> /\ hint \notin StartDirs(fs.dirs)
       IN  fs' = [fs EXCEPT
                    !.pc = IF fs.tool = "list_dir" THEN "list" ELSE "resolve",
                    !.base = hint,
                    !.made = IF new THEN @ \cup {hint} ELSE @,
                    !.io = IF new THEN @ \cup {[op |-> "makedirs", path |-> hint]}
                           ELSE @]
    /\ UNCHANGED FsOthers

\* the rest of _resolve_target, lines 85-101, called at line 134 or 155;
\* line 95 finds base in place, line 99 makes the folder of rel
FsResolve ==
    /\ fs.pc = "resolve"
    /\ LET r == resolve_target(fs.name, fs.key, fs.dirs, fs.tool = "create_file")
           new == r.folder # <<>> /\ r.folder \notin (StartDirs(fs.dirs) \cup fs.made)
       IN  fs' = [fs EXCEPT
                    !.base = r.base,
                    !.path = IF r.ok THEN r.path ELSE <<>>,
                    !.made = IF new THEN @ \cup {r.folder} ELSE @,
                    !.io = IF new THEN @ \cup {[op |-> "makedirs", path |-> r.folder]}
                           ELSE @,
                    !.pc = IF fs.tool = "create_file"
                           THEN (IF r.ok THEN "write" ELSE "done") ELSE "lookup",
                    !.result = IF fs.tool = "create_file" /\ ~r.ok
                               THEN "ERROR: ValueError: path escapes sandbox"
                               ELSE @]
    /\ UNCHANGED FsOthers

\* create_file, lines 135-139
FsWrite ==
    /\ fs.pc = "write"
    /\ fs' = [fs EXCEPT
                !.pc = "done", !.result = "OK",
                !.io = @ \cup {[op |-> "write", path |-> fs.path]}
                         \cup (IF fs.there
                               THEN {[op |-> "replace", path |-> fs.path]} ELSE {})]
    /\ UNCHANGED FsOthers

\* read_file, lines 156-166: a rejected or missing path falls back to the
\* search under FS_ROOT when the filename holds no slash
FsLookup(found) ==
    /\ fs.pc = "lookup"
    /\ IF fs.path # <<>> /\ fs.there THEN found /\ fs' = [fs EXCEPT !.pc = "read"]
       ELSE IF \E i \in 1..Len(RawName(fs.name, fs.key)) :
                   RawName(fs.name, fs.key)[i] = Sep
       THEN found /\ FsDone("ERROR: file not found")
       ELSE IF found
       THEN fs' = [fs EXCEPT !.pc = "read", !.path = FoundFile,
                             !.io = @ \cup {[op |-> "walk", path |-> FS_ROOT]}]
       ELSE fs' = [fs EXCEPT !.pc = "done", !.result = "ERROR: file not found",
                             !.io = @ \cup {[op |-> "walk", path |-> FS_ROOT]}]
    /\ UNCHANGED FsOthers

\* read_file, lines 168-172
FsRead ==
    /\ fs.pc = "read"
    /\ fs' = [fs EXCEPT !.pc = "done", !.result = "OK",
                        !.io = @ \cup {[op |-> "read", path |-> fs.path]}]
    /\ UNCHANGED FsOthers

\* list_dir, lines 187-196: the hint directory is listed as it is, any
\* other path goes through _join_safe
FsList ==
    /\ fs.pc = "list"
    /\ LET j == join_safe(WORKDIR, RawName(fs.name, fs.key))
           checked == fs.base = <<>>
           base == IF checked THEN j.path ELSE abspath(fs.base)
           isdir == base \in (StartDirs(fs.dirs) \cup fs.made) \/ (checked /\ fs.there)
       IN  IF checked /\ ~j.ok
           THEN FsDone("ERROR: ValueError: path escapes sandbox")
           ELSE IF ~isdir THEN FsDone("ERROR: not a directory")
           ELSE fs' = [fs EXCEPT !.pc = "done", !.result = "OK", !.path = base,
                                 !.io = @ \cup {[op |-> "listdir", path |-> base]}]
    /\ UNCHANGED FsOthers

\* an I/O call fails: the tool's `except Exception` (lines 140, 173, 197)
\* turns the OSError into a result
FsFails ==
    /\ fs.pc \in {"write", "read", "list"}
    /\ FsDone("ERROR: OSError")
    /\ UNCHANGED FsOthers

NextFs ==
    \/ FsCall \/ FsHint \/ FsResolve \/ FsWrite
    \/ (\E found \in BOOLEAN : FsLookup(found))
    \/ FsRead \/ FsList \/ FsFails

SpecFs == InitFs /\ [][NextFs]_vars

\* ------------------------------- MacroStore and the macro tools of main.py

MacroNames == {"greet", "tidy"}

\* what add, remove and run_macro are called with as name: a macro name,
\* the empty string, or a literal that is not hashable such as ["greet"]
NameArgs == MacroNames \cup {"", "unhashable"}

Hello == <<"h", ".", "t">>
HelloPath == WORKDIR \o <<Sep>> \o Hello
BakPath == HelloPath \o <<".", "b">>
MacroPath == WORKDIR \o <<Sep, "m">>

\* The steps a macro is made of:
\*   create      {"tool": "create_file",
\*                "kwargs": {"filename": "hello.txt", "content": "hi"}}
\*   list        {"tool": "list_dir"}
\*   rm          {"tool": "rm"}, a tool SAFE_TOOLS does not have
\*   malformed   "ls", or a dict without "tool"
\*   unhashable  {"tool": ["ls"]}
StepOf(shape, tool) == [shape |-> shape, tool |-> tool]

MacroSteps ==
    {StepOf("dict", "create_file"), StepOf("dict", "list_dir"),
     StepOf("dict", "rm"), StepOf("malformed", ""), StepOf("dict", "unhashable")}

MaxSteps == 2

RECURSIVE Bodies(_)
Bodies(n) ==
    IF n = 0 THEN {<<>>}
    ELSE Bodies(n - 1) \cup {Append(b, q) : b \in Bodies(n - 1), q \in MacroSteps}

\* what add_macro_tool is called with: a short macro under any name, the
\* longer ones under the name tidy
AddArgs ==
    {[name |-> n, steps |-> b] : n \in NameArgs, b \in Bodies(1)}
        \cup {[name |-> "tidy", steps |-> b] : b \in Bodies(MaxSteps)}

\* a line of a result: the tag or path it begins with, then the rest
ErrorLine(what) == <<"ERROR:", what>>

\* create_file with lines 136 and 137-138 in the other order: the file just
\* written is the one renamed
ReplaceAfterWrite(files, ok) ==
    IF ~ok THEN [files |-> files, out |-> <<ErrorLine("OSError")>>]
    ELSE [files |-> [q \in (DOMAIN files \ {HelloPath}) \cup {BakPath} |->
                        IF q = BakPath THEN "hi" ELSE files[q]],
          out |-> <<<<"OK:", "wrote 2 bytes to", HelloPath>>>>]

\* create_file(filename="hello.txt", content="hi"), lines 118-141, on the
\* files of the workspace: the files afterwards and the string returned,
\* as its lines
create_file(files, ok) ==
    LET r == resolve_target(Hello, <<>>, {}, TRUE)
    IN  IF ~r.ok
        THEN [files |-> files, out |-> <<ErrorLine("ValueError")>>]
        ELSE IF ~ok
        THEN [files |-> files, out |-> <<ErrorLine("OSError")>>]
        ELSE [files |-> [q \in DOMAIN files \cup {r.path}
                              \cup (IF r.path \in DOMAIN files
                                    THEN {r.path \o <<".", "b">>} ELSE {}) |->
                            IF q = r.path THEN "hi"
                            ELSE IF q = r.path \o <<".", "b">> /\ r.path \in DOMAIN files
                            THEN files[r.path] ELSE files[q]],
              out |-> <<<<"OK:", "wrote 2 bytes to", r.path>>>>]

\* the entries of WORKDIR in sorted order: hello.txt, hello.txt.bak, macros.json
Entries(files) ==
    (IF HelloPath \in DOMAIN files THEN <<HelloPath>> ELSE <<>>)
    \o (IF BakPath \in DOMAIN files THEN <<BakPath>> ELSE <<>>)
    \o (IF MacroPath \in DOMAIN files THEN <<MacroPath>> ELSE <<>>)

\* list_dir(), lines 176-198: one line per entry of WORKDIR
list_dir(files, ok) ==
    IF ~ok THEN <<ErrorLine("OSError")>>
    ELSE IF Entries(files) = <<>> THEN <<<<"(empty)">>>>
    ELSE [k \in 1..Len(Entries(files)) |-> <<Entries(files)[k]>>]

\* The store after MacroStore.__init__ and _load (lines 214-226): the macros
\* macros.json held, none when the file is missing; the workspace has or
\* lacks hello.txt.
InitMacro ==
    /\ Quiet
    /\ \E loaded \in SUBSET MacroNames, hello \in {"none", "old"} :
         \E macros \in [loaded -> Bodies(1) \ {<<>>}] :
           ms = [pc |-> "ready", macros |-> macros,
                 files |-> [q \in (IF hello = "old" THEN {HelloPath} ELSE {})
                                  \cup (IF loaded # {} THEN {MacroPath} ELSE {}) |->
                               IF q = MacroPath THEN "json" ELSE "old"],
                 op |-> "none", name |-> "", i |-> 0, results |-> <<>>,
                 failed |-> FALSE, ret |-> <<>>, exc |-> "none"]
    /\ bl = IdleBl /\ tb = IdleTb /\ pr = IdlePr /\ fs = IdleFs

MsOthers == <<sessVars, cliVars, hrVars, bl, tb, pr, fs>>

Returns(m, op, name, lines) ==
    [m EXCEPT !.pc = "returned", !.op = op, !.name = name, !.ret = lines]

Raises(m, op, name, exc) ==
    [m EXCEPT !.pc = "raised", !.op = op, !.name = name, !.exc = exc]

\* _save, lines 228-230: open(..., "w") and json.dump, as it goes well
Saved(files) == [q \in DOMAIN files \cup {MacroPath} |->
                    IF q = MacroPath THEN "json" ELSE files[q]]

\* add_macro_tool, lines 37-43, and MacroStore.add, lines 232-240; the
\* macro is stored before _save is called, and _save is not guarded
MsAdd(name, steps, ok) ==
    /\ ms.pc = "ready"
    /\ IF name \in {"", "unhashable"}
       THEN ok /\ ms' = Returns(ms, "add", name, <<ErrorLine("invalid macro name")>>)
       ELSE IF steps = <<>>
       THEN ok /\ ms' = Returns(ms, "add", name,
                                <<ErrorLine("steps must be a non-empty list")>>)
       ELSE LET macros == [n \in DOMAIN ms.macros \cup {name} |->
                              IF n = name THEN steps ELSE ms.macros[n]]
            IN  IF ok
                THEN ms' = Returns([ms EXCEPT !.macros = macros,
                                              !.files = Saved(ms.files)],
                                   "add", name, <<<<"OK:", "macro saved">>>>)
                ELSE ms' = Raises([ms EXCEPT !.macros = macros], "add", name, "OSError")
    /\ UNCHANGED MsOthers

\* remove_macro_tool, lines 45-46, and MacroStore.remove, lines 242-247
MsRemove(name, ok) ==
    /\ ms.pc = "ready"
    /\ IF name = "unhashable"
       THEN ok /\ ms' = Raises(ms, "remove", name, "TypeError")
       ELSE IF name \notin DOMAIN ms.macros
       THEN ok /\ ms' = Returns(ms, "remove", name, <<ErrorLine("macro not found")>>)
       ELSE LET macros == [n \in DOMAIN ms.macros \ {name} |-> ms.macros[n]]
            IN  IF ok
                THEN ms' = Returns([ms EXCEPT !.macros = macros,
                                              !.files = Saved(ms.files)],
                                   "remove", name, <<<<"OK:", "removed macro">>>>)
                ELSE ms' = Raises([ms EXCEPT !.macros = macros],
                                  "remove", name, "OSError")
    /\ UNCHANGED MsOthers

\* list_macros, lines 48-50, and MacroStore.list, lines 249-250
MsList ==
    /\ ms.pc = "ready"
    /\ ms' = Returns(ms, "list", "",
                     IF DOMAIN ms.macros = {} THEN <<<<"(no macros)">>>>
                     ELSE (IF "greet" \in DOMAIN ms.macros THEN <<<<"greet">>>> ELSE <<>>)
                          \o (IF "tidy" \in DOMAIN ms.macros THEN <<<<"tidy">>>> ELSE <<>>))
    /\ UNCHANGED MsOthers

\* run_macro, lines 57-60
MsRun(name) ==
    /\ ms.pc = "ready"
    /\ IF name = "unhashable" THEN ms' = Raises(ms, "run", name, "TypeError")
       ELSE IF name \notin DOMAIN ms.macros
       THEN ms' = Returns(ms, "run", name, <<ErrorLine("macro not found")>>)
       ELSE ms' = [ms EXCEPT !.pc = "running", !.op = "run", !.name = name,
                             !.i = 1, !.results = <<>>, !.failed = FALSE]
    /\ UNCHANGED MsOthers

\* one iteration of the loop of lines 61-74 on step i; SAFE_TOOLS.get at
\* line 67 is outside the try
MsStep(ok) ==
    /\ ms.pc = "running"
    /\ ms.i <= Len(ms.macros[ms.name])
    /\ LET step == ms.macros[ms.name][ms.i]
           next(m, out) == [m EXCEPT !.i = @ + 1, !.results = Append(@, out)]
       IN  IF step.shape # "dict"
           THEN ok /\ ms' = next(ms, <<ErrorLine("step invalid")>>)
           ELSE IF step.tool = "unhashable"
           THEN ok /\ ms' = Raises(ms, "run", ms.name, "TypeError")
           ELSE IF step.tool \notin SAFE_TOOLS
           THEN ok /\ ms' = next(ms, <<ErrorLine("unknown tool")>>)
           ELSE IF step.tool = "create_file"
           THEN ms' = next([ms EXCEPT !.files = create_file(ms.files, ok).files,
                                      !.failed = @ \/ ~ok],
                           create_file(ms.files, ok).out)
           ELSE ms' = next([ms EXCEPT !.failed = @ \/ ~ok], list_dir(ms.files, ok))
    /\ UNCHANGED MsOthers

\* line 75: "\n".join(results), as the lines of the text returned
MsReturn ==
    /\ ms.pc = "running"
    /\ ms.i > Len(ms.macros[ms.name])
    /\ ms' = [ms EXCEPT !.pc = "returned", !.ret = Flatten(ms.results)]
    /\ UNCHANGED MsOthers

\* the caller, _run_tool_block lines 109-111, takes the string returned or
\* catches what was raised
MsTaken ==
    /\ ms.pc \in {"returned", "raised"}
    /\ ms' = [ms EXCEPT !.pc = "ready", !.op = "none", !.name = "", !.i = 0,
                        !.results = <<>>, !.failed = FALSE, !.ret = <<>>,
                        !.exc = "none"]
    /\ UNCHANGED MsOthers

NextMacro ==
    \/ (\E a \in AddArgs, ok \in BOOLEAN : MsAdd(a.name, a.steps, ok))
    \/ (\E name \in NameArgs, ok \in BOOLEAN : MsRemove(name, ok))
    \/ MsList
    \/ (\E name \in NameArgs : MsRun(name))
    \/ (\E ok \in BOOLEAN : MsStep(ok))
    \/ MsReturn
    \/ MsTaken

SpecMacro == InitMacro /\ [][NextMacro]_vars

\* ------------------------------------------------------------------ claims

\* the units waiting in speech_queue or held by speaker_task, from get()
\* to task_done()
InFlight ==
    {speech_queue[k] : k \in 1..Len(speech_queue)}
        \cup (IF spk.pc = "get" THEN {} ELSE {spk.unit})

\* the units client c has put since it last entered handle_interaction
OfLoop(c) == {u \in InFlight : u.src[1] = c /\ u.src[2] > loopStart[c]}

\* C1: when a handle_interaction loop is about to broadcast 'listening', or
\* has done so and waits for the utterance, no unit that a turn of this loop
\* put is still in speech_queue or with speaker_task.
C1_ListeningAfterDrain ==
    \A c \in Clients : pc[c] \in {"bcast_listening", "listen"} => OfLoop(c) = {}

\* a loop is about to broadcast 'listening' for its next turn, after a turn
\* whose last unit went through the speaker, while the other client's unit
\* is in flight
C1_Witness ==
    /\ pc["c1"] = "bcast_listening"
    /\ turn["c1"] = loopStart["c1"] + 1
    /\ user_input["c1"] = "hi"
    /\ synth.unit.src = <<"c1", turn["c1"]>>
    /\ \E u \in InFlight : u.src[1] = "c2"

\* C2: all units in speech_queue or with speaker_task belong to one turn.
C2_OneTurnInFlight == \A u, v \in InFlight : u.src = v.src

TurnClient == "c1"

\* the texts of the units of a queue, oldest first
Texts(q) == [k \in 1..Len(q) |-> q[k].text]

\* the last n elements of a sequence
LastN(q, n) == SubSeq(q, Len(q) - n + 1, Len(q))

\* the flush of lines 244-247 has run
FlushDone == pc[TurnClient] \in {"store", "join", "closed"}

\* C4: under fair scheduling every turn reaches the final tail flush.
C4_TurnEnds == <>FlushDone

\* what is left of a text without backticks and whitespace
Letters(s) == SelectSeq(s, LAMBDA ch : ch \notin (Whitespace \cup {BT}))

\* what lines 244-247 put for a tail
FlushOf(tl) ==
    IF Strip(clean_for_tts(tl)) = <<>> THEN <<>> ELSE <<Strip(clean_for_tts(tl))>>

\* C5: when the token-level timeout ends the collection of a response, buf
\* holds every fragment received before it; the pass over a response
\* cut short this way puts the complete sentences of the sanitized
\* buffer and keeps the rest as tail, and at the end of the turn the units
\* of that pass and the flushed tail are the last units put and carry the
\* whole sanitized buffer.
C5_StallKeepsText ==
    LET c == TurnClient
        p == lastPass[c]
    IN  /\ (pc[c] = "process" /\ tokTimedOut[c]) => buf[c] = received[c]
        /\ (p.ran /\ p.afterTimeout) =>
              /\ p.raw # <<>>
              /\ JoinWith(p.sents \o <<tail[c]>>, <<" ">>) = clean_for_tts(accum[c])
              /\ Len(speech_queue) >= Len(p.sents) + Len(flushed[c])
              /\ LastN(Texts(speech_queue), Len(p.sents) + Len(flushed[c]))
                     = p.sents \o flushed[c]
              /\ pc[c] = "store" =>
                    /\ flushed[c] = FlushOf(tail[c])
                    /\ Letters(Flatten(p.sents \o flushed[c]))
                           = Letters(clean_for_tts(accum[c]))

\* a response stalled after "h. " and "w": "h." was put by the pass and "w"
\* by the final flush
C5_Witness ==
    /\ pc[TurnClient] = "store"
    /\ lastPass[TurnClient].afterTimeout
    /\ lastPass[TurnClient].raw = <<"h", ".", " ", "w">>
    /\ Texts(speech_queue) = << <<"h", ".">>, <<"w">> >>

MaxOf(S) == CHOOSE x \in S : \A y \in S : x >= y

\* the terminal marks of a text that whitespace follows
Boundaries(s) ==
    {i \in 1..(Len(s) - 1) : s[i] \in Terminal /\ s[i + 1] \in Whitespace}

\* the text after the last terminal mark that whitespace follows
TrailingFragment(s) ==
    IF Boundaries(s) = {} THEN s
    ELSE Drop(s, SkipWs(s, MaxOf(Boundaries(s)) + 1) - 1)

\* the text up to the last terminal mark that whitespace follows
LeadingText(s) ==
    IF Boundaries(s) = {} THEN <<>> ELSE SubSeq(s, 1, MaxOf(Boundaries(s)))

\* C7: after a pass the tail is the trailing fragment of the sanitized
\* buffer and the sentences the pass put are the text before it; while the
\* stream runs the queue holds only what the passes put, and the final flush
\* puts the sanitized tail, once, when it is not empty.
C7_TailHeldBack ==
    LET c == TurnClient
        p == lastPass[c]
        cl == clean_for_tts(accum[c])
    IN  /\ p.ran =>
              /\ tail[c] = TrailingFragment(cl)
              /\ JoinWith(p.sents, <<" ">>) = LeadingText(cl)
        /\ ~FlushDone =>
              /\ flushed[c] = <<>>
              /\ Texts(speech_queue) = spoken[c]
              /\ p.ran => LastN(spoken[c], Len(p.msgs) + Len(p.sents))
                              = p.msgs \o p.sents
        /\ pc[c] = "store" =>
              /\ flushed[c] = FlushOf(tail[c])
              /\ Texts(speech_queue) = spoken[c]
              /\ LastN(spoken[c], Len(flushed[c])) = flushed[c]

\* "h. w" at the end of the turn: "h." put by the pass, "w" put by the final flush
C7_Witness ==
    /\ pc[TurnClient] = "store"
    /\ accum[TurnClient] = <<"h", ".", " ", "w">>
    /\ lastPass[TurnClient].sents = << <<"h", ".">> >>
    /\ flushed[TurnClient] = << <<"w">> >>
    /\ Texts(speech_queue) = << <<"h", ".">>, <<"w">> >>

\* TOOL_BLOCK_RE.finditer on a buffer: the fenced regions of the buffer, left
\* to right, and the text around them
RECURSIVE FencesOf(_)
FencesOf(s) ==
    LET m == ToolBlockSearch(s)
    IN  IF m.start = 0 THEN [text |-> s, blocks |-> <<>>]
        ELSE LET r == FencesOf(Drop(s, m.end))
             IN  [text |-> SubSeq(s, 1, m.start - 1) \o r.text,
                  blocks |-> <<m.block>> \o r.blocks]

\* C6: when the tool-block loop ends, the blocks it ran are the fenced
\* regions of the original buffer and what is left is the text around them.
C6_RemovesExactlyFences ==
    bl.pc = "done" =>
        /\ bl.blocks = FencesOf(bl.orig).blocks
        /\ bl.accum = FencesOf(bl.orig).text

\* the lines among the first n that are neither blank nor comment
Counted(lines, n) == {k \in 1..n : ~Skipped(lines[k])}

\* the place in the results of line k, a line that is not skipped
ResultIndex(lines, k) == Cardinality(Counted(lines, k))

ErrorTagged(result) ==
    result \in {"ERROR: unsupported line", "ERROR: unknown tool", "ERROR: exception"}

\* a line that names an unknown tool, does not parse, or whose tool raises
FailingLine(line) ==
    \/ line.kind = "syntax"
    \/ line.kind = "call" /\ line.func \notin SAFE_TOOLS
    \/ line.kind = "call" /\ line.func \in SAFE_TOOLS /\ line.exc # "none"

\* C8: _run_tool_block never raises; after each line the results hold one
\* entry per line so far that is neither blank nor comment, in line order;
\* the entry of a failing line is ERROR-tagged; and the function returns
\* only after the last line.
C8_OneResultPerLine ==
    /\ tb.pc # "raised"
    /\ tb.raised = "none"
    /\ tb.pc \in {"loop", "returned"} =>
          /\ Len(tb.results) = Cardinality(Counted(tb.lines, tb.i - 1))
          /\ \A k \in Counted(tb.lines, tb.i - 1) :
                FailingLine(tb.lines[k]) =>
                    ErrorTagged(tb.results[ResultIndex(tb.lines, k)])
    /\ tb.pc = "returned" => tb.i = Len(tb.lines) + 1

\* a block whose first line raises in the tool, whose second is a comment
\* and whose third is a call that succeeds
C8_Witness ==
    /\ tb.pc = "returned"
    /\ Len(tb.lines) = 3
    /\ tb.lines[1].exc = "TypeError"
    /\ tb.lines[2].kind = "comment"
    /\ tb.lines[3] = Line("call", "list_dir", 0, <<>>, "none")
    /\ tb.results = <<"ERROR: exception", "out">>
    /\ tb.called = {1, 3}

\* a call with a positional argument, a **kwargs splat or a value that is
\* not a literal
NotKeywordLiteral(line) ==
    /\ line.kind = "call"
    /\ \/ line.nargs > 0
       \/ \E j \in 1..Len(line.kws) : line.kws[j] # "lit"

\* C9: a line with a positional argument, a splat or a non-literal value
\* is not dispatched, and its result is ERROR-tagged.
C9_KeywordLiteralOnly ==
    \A k \in 1..Len(tb.lines) :
        NotKeywordLiteral(tb.lines[k]) =>
            /\ k \notin tb.called
            /\ k < tb.i => ErrorTagged(tb.results[ResultIndex(tb.lines, k)])

\* the directory a lookup of the components comps ends in, started at the
\* directory at: ".." is the parent, and the parent of / is /
RECURSIVE Walk(_, _)
Walk(comps, at) ==
    IF comps = <<>> THEN at
    ELSE IF Head(comps) \in {<<>>, <<".">>} THEN Walk(Tail(comps), at)
    ELSE IF Head(comps) = DotDot
    THEN Walk(Tail(comps), IF at = <<>> THEN at ELSE SubSeq(at, 1, Len(at) - 1))
    ELSE Walk(Tail(comps), Append(at, Head(comps)))

\* the file an absolute path names, as the directories from / down
Location(path) == Walk(SplitOn(path, Sep), <<>>)

\* the location is FS_ROOT or below it
UnderRoot(loc) == Len(loc) >= 1 /\ loc[1] = <<"r">>

\* C10: when _resolve_target is done, a path it returned names a file under
\* FS_ROOT, and a request whose base and relative path lead out of FS_ROOT
\* ended with the error "path escapes sandbox".
C10_TraversalRejected ==
    pr.pc = "done" =>
        /\ pr.outcome \in {"ok", "escapes"}
        /\ pr.outcome = "ok" =>
              /\ UnderRoot(Location(pr.path))
              /\ Location(pr.path) = Location(join(pr.base, pr.rel))
        /\ ~UnderRoot(Location(join(pr.base, pr.rel))) => pr.outcome = "escapes"

\* "../.." with the hint repo leaves FS_ROOT and is rejected
C10_Witness ==
    /\ pr.pc = "done"
    /\ pr.name = DotDot \o <<Sep>> \o DotDot
    /\ pr.key = <<"repo">>
    /\ pr.base = FS_ROOT
    /\ pr.outcome = "escapes"
    /\ pr.path = <<Sep>>

\* C11: every path on which a file tool has performed a read, a write or a
\* listing lies under FS_ROOT, whatever the directory hint maps to.
C11_IoUnderRoot ==
    \A e \in fs.io :
        e.op \in {"read", "write", "replace", "listdir", "walk"}
            => UnderRoot(Location(e.path))

\* C12: when a file tool returns the sandbox error, it has made no directory
\* and written or renamed no file.
C12_RejectedBeforeIo ==
    (fs.pc = "done" /\ fs.result = "ERROR: ValueError: path escapes sandbox")
        => fs.io = {}

\* C13: the store has a maximum at which add returns an error and stores
\* nothing: no add that reports success leaves the store holding every name
\* add is called with.
C13_AddRefusedAtMaximum ==
    [][(ms.pc = "ready" /\ ms'.pc = "returned" /\ ms'.op = "add"
            /\ ms'.ret[1][1] = "OK:")
          => Cardinality(DOMAIN ms'.macros) < Cardinality(MacroNames)]_vars

\* the macro of the spec's example: one create_file step
Greet == <<StepOf("dict", "create_file")>>

RanMacro == ms.pc = "returned" /\ ms.op = "run" /\ ms.name \in DOMAIN ms.macros

\* C14: when run_macro has run a macro whose only step is
\* create_file(filename="hello.txt", content="hi") and the filesystem did
\* not fail, it returns exactly one line, which begins with OK:, and
\* hello.txt is a file of the workspace directory whose content is hi.
C14_GreetWritesHello ==
    (RanMacro /\ ms.macros[ms.name] = Greet /\ ~ms.failed)
        => /\ Len(ms.ret) = 1
           /\ ms.ret[1][1] = "OK:"
           /\ StartsAt(HelloPath, WORKDIR \o <<Sep>>, 1)
           /\ HelloPath \in DOMAIN ms.files
           /\ ms.files[HelloPath] = "hi"

\* greet has run over a hello.txt that was there before
C14_Witness ==
    /\ RanMacro /\ ms.macros[ms.name] = Greet /\ ~ms.failed
    /\ BakPath \in DOMAIN ms.files
    /\ ms.files[BakPath] = "old"

\* C15: no step makes run_macro raise, and the text run_macro returns has as
\* many lines as the macro has steps.
C15_OneLinePerStep ==
    /\ (ms.pc = "raised" /\ ms.op = "run") => ms.name \notin DOMAIN ms.macros
    /\ RanMacro => Len(ms.ret) = Len(ms.macros[ms.name])

\* C17: add, remove and list never raise to their caller.
C17_StoreNeverRaises == ms.pc = "raised" => ms.op \notin {"add", "remove", "list"}

\* the complete sentences of a buffer, as lines 233-241 cut them
Sentences(acc) == Segment(acc, <<>>).units

\* C16: while the fragments of a response are still being received, every
\* complete sentence of the text received so far has been put on the queue.
C16_EnqueuedAsProduced ==
    LET c == TurnClient
        units == Sentences(accum[c] \o Flatten(buf[c]))
        raw == Flatten(buf[c])
    IN  (pc[c] = "await_tok" /\ \A i \in 1..Len(raw) : raw[i] # BT)
            => \A k \in 1..Len(units) :
                   \E j \in 1..Len(spoken[c]) : spoken[c][j] = units[k]

\* C20: a pass puts on the queue only the sentences that the passes before
\* it have not put: when the sentences of the buffer before the pass are
\* still the first sentences after it, the pass puts only those after them.
C20_OnlySuffixSegmented ==
    LET c == TurnClient
        p == lastPass[c]
        old == Sentences(p.before)
        now == Sentences(accum[c])
    IN  (p.ran /\ old # <<>> /\ Len(old) <= Len(now)
              /\ SubSeq(now, 1, Len(old)) = old)
            => p.sents = SubSeq(now, Len(old) + 1, Len(now))

\* C18: when the wait for the drained queue of line 268 is over, the state
\* the loop broadcasts next is idle, before any listening.
C18_IdleAfterDrain ==
    [][\A c \in Clients :
          (pc[c] = "join" /\ pc'[c] # "join") => pc'[c] = "bcast_idle"]_vars

\* C19: when listen() returns exit, quit or bye the loop puts the farewell
\* on the queue and waits for the queue; it leaves that wait only when every
\* unit put has been spoken, and then the loop is over: the handler is back
\* at waiting for a message, without a broadcast of listening or thinking
\* and without a call of handle_request.
C19_ExitEndsLoop ==
    [][\A c \in Clients :
          /\ (pc[c] = "listen" /\ pc'[c] # "listen"
                  /\ user_input'[c] \in {"exit", "quit", "bye"})
                => /\ pc'[c] = "exit_join"
                   /\ Len(speech_queue') = Len(speech_queue) + 1
                   /\ speech_queue'[Len(speech_queue')].text = Goodbye
                   /\ speech_queue'[Len(speech_queue')].src[1] = c
          /\ (pc[c] = "exit_join" /\ pc'[c] # "exit_join")
                => /\ pc'[c] = "open"
                   /\ unfinished_tasks = 0
                   /\ speech_queue = <<>>
                   /\ spk.pc = "get"]_vars

\* c1 said bye, the farewell has been synthesized and the loop is over
C19_Witness ==
    /\ pc["c1"] = "open"
    /\ turn["c1"] > 0
    /\ synth.unit.text = Goodbye
    /\ synth.unit.src[1] = "c1"
    /\ unfinished_tasks = 0

\* how often b is among the elements of q
Occurrences(q, b) == Cardinality({k \in 1..Len(q) : q[k] = b})

\* C21: when the tool-block loop ends, every tool_code block of the buffer
\* has been run exactly once: a block is run as often as it is a fenced
\* region of the buffer the loop started with.
C21_EachBlockOnce ==
    bl.pc = "done" =>
        \A k \in 1..Len(bl.blocks) :
            Occurrences(bl.blocks, bl.blocks[k])
                = Occurrences(FencesOf(bl.orig).blocks, bl.blocks[k])

\* the text holds an opening tool_code fence
HoldsToolFence(s) == \E i \in 1..Len(s) : StartsAt(s, ToolFenceOpen, i)

\* C22: while the responses of a turn are being processed, no unit put on
\* the queue holds a tool_code fence and the text inside it.
C22_FenceTextNotSpoken ==
    ~FlushDone =>
        \A j \in 1..Len(spoken[TurnClient]) : ~HoldsToolFence(spoken[TurnClient][j])

\* the first place of unit u in q, 0 when it is not there
FirstPlace(q, u) ==
    IF \E k \in 1..Len(q) : q[k] = u
    THEN MinOf({k \in 1..Len(q) : q[k] = u}) ELSE 0

\* C24: the units of a pass are put in the order of their source text: when
\* the response holds a sentence, then a tool_code block, the sentence is on
\* the queue before the results of the block.
C24_SourceOrder ==
    LET c == TurnClient
        p == lastPass[c]
        m == ToolBlockSearch(p.raw)
        lead == Sentences(SubSeq(p.raw, 1, m.start - 1) \o <<"w">>)
    IN  (p.ran /\ p.before = <<>> /\ m.start # 0 /\ lead # <<>> /\ p.msgs # <<>>)
            => /\ FirstPlace(spoken[c], lead[1]) # 0
               /\ FirstPlace(spoken[c], lead[1]) < FirstPlace(spoken[c], p.msgs[1])

\* the units speaker_task has marked done: task_done is called once per unit
Done == puts - unfinished_tasks

C25_StoreFailureKeepsLoop ==
    [][\A c \in Clients :
          /\ (pc[c] = "store" /\ pc'[c] # "store") => pc'[c] = "join"
          /\ (pc[c] = "join" /\ pc'[c] # "join") => pc'[c] = "bcast_listening"]_vars

\* C26: add and remove are all-or-nothing: when one of them fails, with an
\* error result or with an exception out of the save, the macros in memory
\* and the files are what they were before the call.
C26_AllOrNothing ==
    [][(ms.pc = "ready" /\ ms'.op \in {"add", "remove"}
            /\ (ms'.pc = "raised" \/ (ms'.pc = "returned" /\ ms'.ret[1][1] = "ERROR:")))
          => (ms'.macros = ms.macros /\ ms'.files = ms.files)]_vars
====
